---- MODULE Spec2Model ----
(***************************************************************************)
(* sdnotify: the three notifier clients (blocking lib.rs, async_await,     *)
(* Sink-based async_io), the Message constructors, the wire encoding and   *)
(* the Unix datagram transport they write to.                              *)
(*                                                                         *)
(* Byte strings are sequences of one-character strings.  The transport is  *)
(* one destination socket path with an optional receiver bound to it and   *)
(* the receiver's bounded datagram queue.                                  *)
(***************************************************************************)
EXTENDS Naturals, Sequences, FiniteSets

\* ---------------------------------------------------------------- bounds
\* longest status text tried
MaxLen == 1
\* API calls made in one behaviour (constructors and sends, all clients)
MaxCalls == 4
\* datagrams the receiver's queue holds before a write would block
MaxQueue == 1

\* ------------------------------------------------------------ byte strings
LF == "\n"
Chars == {"a", LF}

RECURSIVE StringsOfLen(_)
StringsOfLen(n) ==
  IF n = 0 THEN {<< >>}
  ELSE {Append(s, ch) : s \in StringsOfLen(n - 1), ch \in Chars}

Strings == UNION {StringsOfLen(n) : n \in 0..MaxLen}

\* the path the receiver binds (the tests' path), and the empty path
SockPath == "/tmp/kek.sock"
EmptyPath == ""
Paths == {SockPath, EmptyPath}

\* ---------------------------------------------------------------- Message
NoMsg == [tag |-> "None", text |-> << >>]

MessageReady == [tag |-> "Ready", text |-> << >>]

MessageWatchdog == [tag |-> "Watchdog", text |-> << >>]

\* status.as_bytes().iter().any(|x| *x == b'\n')
HasNewline(status) == \E i \in 1..Len(status) : status[i] = LF

\* faulty variant: status without the newline check
StatusUnchecked(status) ==
  [ok |-> TRUE, msg |-> [tag |-> "Status", text |-> status], err |-> "none"]

MessageStatus(status) ==
  IF HasNewline(status)
  THEN [ok |-> FALSE, msg |-> NoMsg, err |-> "InvalidData"]
  ELSE [ok |-> TRUE, msg |-> [tag |-> "Status", text |-> status], err |-> "none"]

\* faulty variant: the Message field public, a Status built without Message::status
MessagesUnvalidated ==
  {MessageReady, MessageWatchdog} \cup {[tag |-> "Status", text |-> s] : s \in Strings}

\* every Message value a caller can hold: the field of Message is private,
\* so the three constructors are the only way to one
Messages ==
  {MessageReady, MessageWatchdog}
    \cup {MessageStatus(s).msg : s \in {t \in Strings : MessageStatus(t).ok}}

\* ------------------------------------------------------------ wire encoding
\* faulty variant: the payloads written as lines
StateBytesNewline(m) ==
  CASE m.tag = "Ready" -> <<"R", "E", "A", "D", "Y", "=", "1", LF>>
    [] m.tag = "Status" -> <<"S", "T", "A", "T", "U", "S", "=">> \o m.text \o <<LF>>
    [] m.tag = "Watchdog" -> <<"W", "A", "T", "C", "H", "D", "O", "G", "=", "1", LF>>

\* the match in the blocking SdNotify::state
StateBytes(m) ==
  CASE m.tag = "Ready" -> <<"R", "E", "A", "D", "Y", "=", "1">>
    [] m.tag = "Status" -> <<"S", "T", "A", "T", "U", "S", "=">> \o m.text
    [] m.tag = "Watchdog" -> <<"W", "A", "T", "C", "H", "D", "O", "G", "=", "1">>

\* Codec::encode of async_io
CodecEncode(m) ==
  CASE m.tag = "Ready" -> <<"R", "E", "A", "D", "Y", "=", "1">>
    [] m.tag = "Status" -> <<"S", "T", "A", "T", "U", "S", "=">> \o m.text
    [] m.tag = "Watchdog" -> <<"W", "A", "T", "C", "H", "D", "O", "G", "=", "1">>

\* the match in the async_await SdNotify::state
AwaitBytes(m) ==
  CASE m.tag = "Ready" -> <<"R", "E", "A", "D", "Y", "=", "1">>
    [] m.tag = "Status" -> <<"S", "T", "A", "T", "U", "S", "=">> \o m.text
    [] m.tag = "Watchdog" -> <<"W", "A", "T", "C", "H", "D", "O", "G", "=", "1">>

\* ------------------------------------------------------------------ state
VARIABLES
  env,        \* NOTIFY_SOCKET: [kind: unset | notunicode | set, val: path]
  bound,      \* a receiver is bound at SockPath
  queue,      \* the bound receiver's unread datagrams, oldest first
  bk,         \* the blocking client (lib.rs SdNotify)
  aw,         \* the async_await client and its suspended send, if any
  io,         \* the async_io client and its framed sink
  ncalls,     \* API calls issued
  rets,       \* API calls returned
  last,       \* the call that returned last: client, operation, input, result
  sent,       \* messages handed to a send primitive
  acked,      \* messages whose send was reported successful
  failed,     \* messages whose send was reported as an I/O error
  attempts,   \* datagram writes the transport was asked for
  delivered,  \* datagrams the transport accepted
  wire,       \* the last write: client, message id, message, bytes, path, accepted
  wireIds     \* <<client, message id>> in the order the writes reached the transport

vars ==
  <<env, bound, queue, bk, aw, io, ncalls, rets, last, sent, acked, failed,
    attempts, delivered, wire, wireIds>>

clientVars == <<bk, aw, io>>
kernelVars == <<attempts, delivered, wire, wireIds, queue>>
tallyVars == <<sent, acked, failed>>

EnvValues ==
  {[kind |-> "unset", val |-> EmptyPath], [kind |-> "notunicode", val |-> EmptyPath]}
    \cup {[kind |-> "set", val |-> p] : p \in Paths}

NoClientBk == [st |-> "none", path |-> EmptyPath]
NoClientAw ==
  [st |-> "none", peer |-> FALSE, pend |-> FALSE, pop |-> "none",
   parg |-> << >>, pmsg |-> NoMsg, pid |-> 0]
NoClientIo ==
  [st |-> "none", path |-> EmptyPath, flushed |-> TRUE, wr |-> << >>,
   wmsg |-> NoMsg, wid |-> 0]

NoCall ==
  [c |-> "none", op |-> "none", arg |-> << >>, msg |-> NoMsg, id |-> 0,
   res |-> "none", alloc |-> TRUE, back |-> NoMsg]
NoWire ==
  [c |-> "none", id |-> 0, msg |-> NoMsg, bytes |-> << >>, to |-> EmptyPath,
   ok |-> FALSE]

Init ==
  /\ env \in EnvValues
  /\ bound \in BOOLEAN
  /\ queue = << >>
  /\ bk = NoClientBk
  /\ aw = NoClientAw
  /\ io = NoClientIo
  /\ ncalls = 0
  /\ rets = 0
  /\ last = NoCall
  /\ sent = 0
  /\ acked = 0
  /\ failed = 0
  /\ attempts = 0
  /\ delivered = 0
  /\ wire = NoWire
  /\ wireIds = << >>

\* -------------------------------------------------------------- transport
\* a datagram addressed to path p finds a receiver
Listening(p) == p = SockPath /\ bound

\* the receiver's queue is full: a write to it would block
QueueFull == Len(queue) >= MaxQueue

\* one datagram write that the transport answers (accepted or refused)
Write(c, id, m, bytes, p, ok) ==
  /\ attempts' = attempts + 1
  /\ wire' = [c |-> c, id |-> id, msg |-> m, bytes |-> bytes, to |-> p, ok |-> ok]
  /\ wireIds' = Append(wireIds, <<c, id>>)
  /\ IF ok
     THEN queue' = Append(queue, bytes) /\ delivered' = delivered + 1
     ELSE UNCHANGED <<queue, delivered>>

\* a call's return value reaching the caller
Return(c, op, arg, m, id, res, alloc, back) ==
  /\ rets' = rets + 1
  /\ last' = [c |-> c, op |-> op, arg |-> arg, msg |-> m, id |-> id,
              res |-> res, alloc |-> alloc, back |-> back]

\* env::var("NOTIFY_SOCKET"): Ok(value), or Err(NotPresent | NotUnicode)
EnvVar ==
  IF env.kind = "set" THEN [ok |-> TRUE, val |-> env.val]
  ELSE [ok |-> FALSE, val |-> EmptyPath]

\* impl From<env::VarError> for Error
FromVarError == "NoSocket"

\* impl From<std::io::Error> for Error
FromIoError == "Io"

\* ------------------------------------------------------- blocking client
\* faulty variant: the blocking from_path connecting like the async ones
BkFromPathConnecting(p, alloc) ==
  IF ~alloc THEN [ok |-> FALSE, err |-> FromIoError, client |-> NoClientBk]
  ELSE IF ~Listening(p) THEN [ok |-> FALSE, err |-> FromIoError, client |-> NoClientBk]
  ELSE [ok |-> TRUE, err |-> "none", client |-> [st |-> "open", path |-> p]]

\* UnixDatagram::unbound()? then Ok(SdNotify { socket, path })
BkFromPathResult(p, alloc) ==
  IF ~alloc THEN [ok |-> FALSE, err |-> FromIoError, client |-> NoClientBk]
  ELSE [ok |-> TRUE, err |-> "none", client |-> [st |-> "open", path |-> p]]

\* faulty variant: the VarError ignored, the value defaulting to the empty path
BkFromEnvUnchecked(alloc) == BkFromPathResult(EnvVar.val, alloc)

BkFromEnvResult(alloc) ==
  IF ~EnvVar.ok THEN [ok |-> FALSE, err |-> FromVarError, client |-> NoClientBk]
  ELSE BkFromPathResult(EnvVar.val, alloc)

\* a constructor call returning: Ok(client) or Err(error)
Constructed(c, op, arg, r, alloc) ==
  /\ ncalls < MaxCalls
  /\ ncalls' = ncalls + 1
  /\ Return(c, op, arg, NoMsg, 0, IF r.ok THEN "Ok" ELSE r.err, alloc, NoMsg)
  /\ UNCHANGED <<env, bound, kernelVars, tallyVars>>

BkConstruct(op, arg, r, alloc) ==
  /\ bk.st = "none"
  /\ bk' = r.client
  /\ Constructed("bk", op, arg, r, alloc)
  /\ UNCHANGED <<aw, io>>

BkFromEnv == \E alloc \in BOOLEAN : BkConstruct("from_env", << >>, BkFromEnvResult(alloc), alloc)

BkFromPath ==
  \E p \in Paths, alloc \in BOOLEAN :
    BkConstruct("from_path", p, BkFromPathResult(p, alloc), alloc)

\* faulty variant: a datagram equal to the one last delivered is not sent again
BkStateDedup(op, arg, m) ==
  /\ bk.st = "open"
  /\ ncalls < MaxCalls
  /\ ~(Listening(bk.path) /\ QueueFull)
  /\ ncalls' = ncalls + 1
  /\ sent' = sent + 1
  /\ IF wire.c = "bk" /\ wire.ok /\ wire.msg = m
     THEN /\ acked' = acked + 1
          /\ failed' = failed
          /\ Return("bk", op, arg, m, ncalls + 1, "Ok", TRUE, NoMsg)
          /\ UNCHANGED kernelVars
     ELSE /\ Write("bk", ncalls + 1, m, StateBytes(m), bk.path, Listening(bk.path))
          /\ IF Listening(bk.path)
             THEN /\ acked' = acked + 1
                  /\ failed' = failed
                  /\ Return("bk", op, arg, m, ncalls + 1, "Ok", TRUE, NoMsg)
             ELSE /\ acked' = acked
                  /\ failed' = failed + 1
                  /\ Return("bk", op, arg, m, ncalls + 1, "Io", TRUE, NoMsg)
  /\ UNCHANGED <<env, bound, clientVars>>

\* fn state: one send_to(bytes, &self.path)?; the thread blocks while the
\* receiver's queue is full
BkState(op, arg, m) ==
  /\ bk.st = "open"
  /\ ncalls < MaxCalls
  /\ ~(Listening(bk.path) /\ QueueFull)
  /\ ncalls' = ncalls + 1
  /\ sent' = sent + 1
  /\ Write("bk", ncalls + 1, m, StateBytes(m), bk.path, Listening(bk.path))
  /\ IF Listening(bk.path)
     THEN /\ acked' = acked + 1
          /\ failed' = failed
          /\ Return("bk", op, arg, m, ncalls + 1, "Ok", TRUE, NoMsg)
     ELSE /\ acked' = acked
          /\ failed' = failed + 1
          /\ Return("bk", op, arg, m, ncalls + 1, "Io", TRUE, NoMsg)
  /\ UNCHANGED <<env, bound, clientVars>>

\* a call that fails before the send primitive: Message::status(status)?
Rejected(c, op, arg, err) ==
  /\ ncalls < MaxCalls
  /\ ncalls' = ncalls + 1
  /\ Return(c, op, arg, NoMsg, 0, err, TRUE, NoMsg)
  /\ UNCHANGED <<env, bound, clientVars, kernelVars, tallyVars>>

BkNotifyReady == BkState("notify_ready", << >>, MessageReady)

BkSetStatus ==
  \E s \in Strings :
    IF MessageStatus(s).ok
    THEN BkState("set_status", s, MessageStatus(s).msg)
    ELSE bk.st = "open" /\ Rejected("bk", "set_status", s, MessageStatus(s).err)

BkPingWatchdog == BkState("ping_watchdog", << >>, MessageWatchdog)

\* --------------------------------------------------- async_await client
\* UnixDatagram::unbound()?; socket.connect(path)?; Ok(SdNotify { socket })
AwFromPathResult(p, alloc) ==
  IF ~alloc THEN [ok |-> FALSE, err |-> FromIoError, client |-> NoClientAw]
  ELSE IF ~Listening(p) THEN [ok |-> FALSE, err |-> FromIoError, client |-> NoClientAw]
  ELSE [ok |-> TRUE, err |-> "none",
        client |-> [NoClientAw EXCEPT !.st = "open", !.peer = TRUE]]

AwFromEnvResult(alloc) ==
  IF ~EnvVar.ok THEN [ok |-> FALSE, err |-> FromVarError, client |-> NoClientAw]
  ELSE AwFromPathResult(EnvVar.val, alloc)

AwConstruct(op, arg, r, alloc) ==
  /\ aw.st = "none"
  /\ aw' = r.client
  /\ Constructed("aw", op, arg, r, alloc)
  /\ UNCHANGED <<bk, io>>

AwFromEnv == \E alloc \in BOOLEAN : AwConstruct("from_env", << >>, AwFromEnvResult(alloc), alloc)

AwFromPath ==
  \E p \in Paths, alloc \in BOOLEAN :
    AwConstruct("from_path", p, AwFromPathResult(p, alloc), alloc)

\* socket.send(bytes).await on the connected socket would block
AwWouldBlock == aw.peer /\ QueueFull

\* faulty variant: the send's error dropped (let _ = ...), Ok(()) returned regardless
AwSendSwallows(op, arg, m, id) ==
  /\ Write("aw", id, m, AwaitBytes(m), SockPath, aw.peer)
  /\ IF aw.peer
     THEN acked' = acked + 1 /\ failed' = failed
     ELSE acked' = acked /\ failed' = failed + 1
  /\ Return("aw", op, arg, m, id, "Ok", TRUE, NoMsg)

\* socket.send(bytes).await? resolving: the one write, then Ok(()) or the error
AwSendResolves(op, arg, m, id) ==
  /\ Write("aw", id, m, AwaitBytes(m), SockPath, aw.peer)
  /\ IF aw.peer
     THEN /\ acked' = acked + 1
          /\ failed' = failed
          /\ Return("aw", op, arg, m, id, "Ok", TRUE, NoMsg)
     ELSE /\ acked' = acked
          /\ failed' = failed + 1
          /\ Return("aw", op, arg, m, id, "Io", TRUE, NoMsg)

\* pub async fn state, polled for the first time: the send resolves at once,
\* or the task is suspended until the socket is writable
AwState(op, arg, m) ==
  /\ aw.st = "open"
  /\ ~aw.pend
  /\ ncalls < MaxCalls
  /\ ncalls' = ncalls + 1
  /\ sent' = sent + 1
  /\ IF AwWouldBlock
     THEN /\ aw' = [aw EXCEPT !.pend = TRUE, !.pop = op, !.parg = arg,
                              !.pmsg = m, !.pid = ncalls + 1]
          /\ UNCHANGED <<rets, last, acked, failed, kernelVars>>
     ELSE /\ AwSendResolves(op, arg, m, ncalls + 1)
          /\ aw' = aw
  /\ UNCHANGED <<env, bound, bk, io>>

\* faulty variant: the resolved send stays suspended and is written again
AwWakeAgain ==
  /\ aw.st = "open"
  /\ aw.pend
  /\ ~AwWouldBlock
  /\ AwSendResolves(aw.pop, aw.parg, aw.pmsg, aw.pid)
  /\ aw' = aw
  /\ UNCHANGED <<env, bound, bk, io, ncalls, sent>>

\* the suspended task is woken: the socket is writable, or its peer is gone
AwWake ==
  /\ aw.st = "open"
  /\ aw.pend
  /\ ~AwWouldBlock
  /\ AwSendResolves(aw.pop, aw.parg, aw.pmsg, aw.pid)
  /\ aw' = [aw EXCEPT !.pend = FALSE, !.pop = "none", !.parg = << >>,
                      !.pmsg = NoMsg, !.pid = 0]
  /\ UNCHANGED <<env, bound, bk, io, ncalls, sent>>

AwNotifyReady == AwState("notify_ready", << >>, MessageReady)

AwSetStatus ==
  \E s \in Strings :
    IF MessageStatus(s).ok
    THEN AwState("set_status", s, MessageStatus(s).msg)
    ELSE /\ aw.st = "open"
         /\ ~aw.pend
         /\ Rejected("aw", "set_status", s, MessageStatus(s).err)

AwPingWatchdog == AwState("ping_watchdog", << >>, MessageWatchdog)

\* state is public in async_await: any constructed Message
AwSendState == \E m \in Messages : AwState("state", m, m)

\* ------------------------------------------------------- async_io client
\* UnixDatagram::unbound()?; socket.connect(path)?;
\* Ok(SdNotify { framed: UnixDatagramFramed::new(socket, Codec), path })
IoFromPathResult(p, alloc) ==
  IF ~alloc THEN [ok |-> FALSE, err |-> FromIoError, client |-> NoClientIo]
  ELSE IF ~Listening(p) THEN [ok |-> FALSE, err |-> FromIoError, client |-> NoClientIo]
  ELSE [ok |-> TRUE, err |-> "none",
        client |-> [NoClientIo EXCEPT !.st = "open", !.path = p]]

IoFromEnvResult(alloc) ==
  IF ~EnvVar.ok THEN [ok |-> FALSE, err |-> FromVarError, client |-> NoClientIo]
  ELSE IoFromPathResult(EnvVar.val, alloc)

IoConstruct(op, arg, r, alloc) ==
  /\ io.st = "none"
  /\ io' = r.client
  /\ Constructed("io", op, arg, r, alloc)
  /\ UNCHANGED <<bk, aw>>

IoFromEnv == \E alloc \in BOOLEAN : IoConstruct("from_env", << >>, IoFromEnvResult(alloc), alloc)

IoFromPath ==
  \E p \in Paths, alloc \in BOOLEAN :
    IoConstruct("from_path", p, IoFromPathResult(p, alloc), alloc)

\* self.framed.poll_complete() on an unflushed frame: the framed sink sends
\* its buffer to the path given with the item, (item, self.path.clone()); the
\* datagram goes to whoever is bound there now, as in the blocking send_to
FlushPoll ==
  IF ~Listening(io.path) THEN "Err"
  ELSE IF QueueFull THEN "NotReady"
  ELSE "Ready"

\* the buffered frame's one write, accepted or refused
FlushWrite(ok) == Write("io", io.wid, io.wmsg, io.wr, io.path, ok)

\* the framed sink takes the item: Codec::encode into the write buffer
Enqueue(m, id) ==
  [io EXCEPT !.flushed = FALSE, !.wr = CodecEncode(m), !.wmsg = m, !.wid = id]

\* faulty variant: the new item written at once, overtaking the buffered frame
StartSendOvertaking(m) ==
  /\ io.st = "open"
  /\ ncalls < MaxCalls
  /\ ncalls' = ncalls + 1
  /\ IF io.flushed \/ FlushPoll = "Err"
     THEN /\ io' = Enqueue(m, ncalls + 1)
          /\ sent' = sent + 1
          /\ Return("io", "start_send", m, m, ncalls + 1, "Ready", TRUE, NoMsg)
          /\ UNCHANGED <<acked, failed, kernelVars>>
     ELSE /\ FlushPoll # "NotReady"
          /\ Write("io", ncalls + 1, m, CodecEncode(m), io.path, TRUE)
          /\ io' = io
          /\ sent' = sent + 1
          /\ acked' = acked + 1
          /\ failed' = failed
          /\ Return("io", "start_send", m, m, ncalls + 1, "Ready", TRUE, NoMsg)
  /\ UNCHANGED <<env, bound, bk, aw>>

\* Sink::start_send: the framed sink first flushes an unflushed frame
\* (NotReady hands the item back, an error ends the call), then takes the item
StartSend(m) ==
  /\ io.st = "open"
  /\ ncalls < MaxCalls
  /\ ncalls' = ncalls + 1
  /\ IF io.flushed
     THEN /\ io' = Enqueue(m, ncalls + 1)
          /\ sent' = sent + 1
          /\ Return("io", "start_send", m, m, ncalls + 1, "Ready", TRUE, NoMsg)
          /\ UNCHANGED <<acked, failed, kernelVars>>
     ELSE CASE FlushPoll = "NotReady" ->
                 /\ io' = io
                 /\ Return("io", "start_send", m, m, ncalls + 1, "NotReady", TRUE, m)
                 /\ UNCHANGED <<tallyVars, kernelVars>>
            [] FlushPoll = "Err" ->
                 /\ FlushWrite(FALSE)
                 /\ io' = [io EXCEPT !.st = "failed"]
                 /\ failed' = failed + 1
                 /\ Return("io", "start_send", m, m, ncalls + 1, "Io", TRUE, NoMsg)
                 /\ UNCHANGED <<sent, acked>>
            [] FlushPoll = "Ready" ->
                 /\ FlushWrite(TRUE)
                 /\ io' = Enqueue(m, ncalls + 1)
                 /\ sent' = sent + 1
                 /\ acked' = acked + 1
                 /\ failed' = failed
                 /\ Return("io", "start_send", m, m, ncalls + 1, "Ready", TRUE, NoMsg)
  /\ UNCHANGED <<env, bound, bk, aw>>

IoStartSend == \E m \in Messages : StartSend(m)

\* Sink::poll_complete on an unflushed frame, once the task is woken: the
\* frame's one write; an error ends the sink's use (Send drops the sink)
IoPollComplete ==
  /\ io.st = "open"
  /\ ~io.flushed
  /\ FlushPoll # "NotReady"
  /\ IF FlushPoll = "Ready"
     THEN /\ FlushWrite(TRUE)
          /\ io' = [io EXCEPT !.flushed = TRUE, !.wr = << >>, !.wmsg = NoMsg, !.wid = 0]
          /\ acked' = acked + 1
          /\ failed' = failed
          /\ Return("io", "poll_complete", << >>, io.wmsg, io.wid, "Ok", TRUE, NoMsg)
     ELSE /\ FlushWrite(FALSE)
          /\ io' = [io EXCEPT !.st = "failed"]
          /\ acked' = acked
          /\ failed' = failed + 1
          /\ Return("io", "poll_complete", << >>, io.wmsg, io.wid, "Io", TRUE, NoMsg)
  /\ UNCHANGED <<env, bound, bk, aw, ncalls, sent>>

\* ------------------------------------------------------------ environment
\* a receiver binds the socket path
Bind ==
  /\ ~bound
  /\ bound' = TRUE
  /\ queue' = << >>
  /\ UNCHANGED <<env, clientVars, ncalls, rets, last, tallyVars, attempts,
                 delivered, wire, wireIds>>

\* the receiver closes its socket: unread datagrams are gone, and sockets
\* connected to it have lost their peer
Unbind ==
  /\ bound
  /\ bound' = FALSE
  /\ queue' = << >>
  /\ aw' = [aw EXCEPT !.peer = FALSE]
  /\ UNCHANGED <<env, bk, io, ncalls, rets, last, tallyVars, attempts,
                 delivered, wire, wireIds>>

\* the receiver reads its oldest datagram
Recv ==
  /\ bound
  /\ queue # << >>
  /\ queue' = Tail(queue)
  /\ UNCHANGED <<env, bound, clientVars, ncalls, rets, last, tallyVars,
                 attempts, delivered, wire, wireIds>>

Next ==
  \/ BkFromEnv
  \/ BkFromPath
  \/ BkNotifyReady
  \/ BkSetStatus
  \/ BkPingWatchdog
  \/ AwFromEnv
  \/ AwFromPath
  \/ AwNotifyReady
  \/ AwSetStatus
  \/ AwPingWatchdog
  \/ AwSendState
  \/ AwWake
  \/ IoFromEnv
  \/ IoFromPath
  \/ IoStartSend
  \/ IoPollComplete
  \/ Bind
  \/ Unbind
  \/ Recv

Spec == Init /\ [][Next]_vars

\* ------------------------------------------------------------ properties
\* this step returns an API call to its caller
Returns == rets' = rets + 1

\* this step asks the transport for a datagram write
Writes == attempts' = attempts + 1

\* the returning call is a send of a message by client c
SendReturns(c) == Returns /\ last'.c = c /\ last'.msg # NoMsg

ContainsLF(s) == LF \in {s[i] : i \in DOMAIN s}

Last(s) == s[Len(s)]

\* the wire table of the protocol
WireTable(m) ==
  CASE m.tag = "Ready" -> <<"R", "E", "A", "D", "Y", "=", "1">>
    [] m.tag = "Watchdog" -> <<"W", "A", "T", "C", "H", "D", "O", "G", "=", "1">>
    [] m.tag = "Status" ->
         [i \in 1..(7 + Len(m.text)) |->
            IF i <= 7 THEN <<"S", "T", "A", "T", "U", "S", "=">>[i] ELSE m.text[i - 7]]

\* the path the client writing in this step was constructed with
WriterPath ==
  CASE wire'.c = "bk" -> bk.path
    [] wire'.c = "io" -> io.path
    [] wire'.c = "aw" -> SockPath

\* C1: every write of every client variant hands the transport one datagram
\* whose payload is the wire table's encoding of the message being sent
\* (READY=1, STATUS= and the text verbatim, WATCHDOG=1, no trailing newline,
\* nothing else), addressed to the path the client was constructed with; an
\* accepted write puts exactly those bytes at the end of the receiver's queue
\* and a refused one leaves the queue alone; a blocking or async_await send
\* that returns has written its own message, and no step writes twice.
C1_WireEncoding ==
  [][ /\ attempts' \in {attempts, attempts + 1}
      /\ Writes =>
           /\ wire'.bytes = WireTable(wire'.msg)
           /\ wire'.msg \in Messages
           /\ wire'.to = WriterPath
           /\ IF wire'.ok
              THEN /\ bound /\ wire'.to = SockPath
                   /\ queue' = Append(queue, WireTable(wire'.msg))
              ELSE queue' = queue
      /\ \A c \in {"bk", "aw"} :
           SendReturns(c) =>
             Writes /\ wire'.c = c /\ wire'.msg = last'.msg
      /\ (Writes /\ wire'.c = "io") => wire'.msg = io.wmsg
    ]_vars

\* C1 witness: a non-empty status text written by the blocking client and
\* lying at the end of the receiver's queue
C1_Witness ==
  /\ wire.c = "bk" /\ wire.ok
  /\ wire.msg.tag = "Status" /\ Len(wire.msg.text) > 0
  /\ queue # << >> /\ Last(queue) = <<"S", "T", "A", "T", "U", "S", "=", "a">>

\* C2: set_status of a text with a line feed returns InvalidData and does no
\* transport I/O (no write attempted, the receiver's queue and every counter
\* of sends unchanged, no send suspended); for a text without a line feed
\* Message::status succeeds: set_status goes on to send Status(text).
C2_NewlineRejected ==
  [][ (Returns /\ last'.op = "set_status") =>
        IF ContainsLF(last'.arg)
        THEN /\ last'.res = "InvalidData"
             /\ last'.msg = NoMsg
             /\ UNCHANGED <<kernelVars, tallyVars, clientVars>>
        ELSE /\ last'.res \in {"Ok", "Io"}
             /\ last'.msg = [tag |-> "Status", text |-> last'.arg]
             /\ Writes
    ]_vars

\* C2 witness: the async_await set_status has rejected a text with a line feed
C2_Witness ==
  /\ last.c = "aw" /\ last.op = "set_status"
  /\ ContainsLF(last.arg) /\ last.res = "InvalidData"

\* the client record of variant c
ClientOf(c) == CASE c = "bk" -> bk [] c = "aw" -> aw [] c = "io" -> io

\* the same after this step
NextClientOf(c) == CASE c = "bk" -> bk' [] c = "aw" -> aw' [] c = "io" -> io'

\* C3 (as stated): from_env fails with NoSocket whenever NOTIFY_SOCKET is
\* unset or set to the empty string, and returns no client.
C3_EmptyIsNoSocket ==
  (last.op = "from_env" /\ (env.kind # "set" \/ env.val = EmptyPath)) =>
    (last.res = "NoSocket" /\ ClientOf(last.c).st = "none")

\* C3 (amended): from_env fails with NoSocket, opening nothing and returning
\* no client, whenever NOTIFY_SOCKET is unset or not valid Unicode; an empty
\* value is a value: it goes to from_path, where the blocking variant returns
\* a client (an I/O error only if the socket cannot be allocated) and the
\* connecting variants fail with an I/O error.
C3_UnsetIsNoSocket ==
  [][ (Returns /\ last'.op = "from_env") =>
        /\ env.kind # "set" =>
             /\ last'.res = "NoSocket"
             /\ UNCHANGED <<clientVars, kernelVars, tallyVars>>
        /\ (env.kind = "set" /\ env.val = EmptyPath) =>
             /\ last'.res # "NoSocket"
             /\ last'.c = "bk" =>
                  /\ last'.res = (IF last'.alloc THEN "Ok" ELSE "Io")
                  /\ bk'.st = (IF last'.alloc THEN "open" ELSE "none")
             /\ last'.c \in {"aw", "io"} =>
                  (last'.res = "Io" /\ UNCHANGED clientVars)
    ]_vars

\* C3 witness: from_env has returned NoSocket with the variable unset
C3_Witness ==
  /\ last.op = "from_env" /\ env.kind = "unset" /\ last.res = "NoSocket"
  /\ ClientOf(last.c).st = "none"

\* C4: the two calling conventions behave alike: whenever the blocking
\* from_path returns, the suspend-capable from_path called with the same
\* path in the same environment returns the same success-or-error outcome.
C4_SameOutcome ==
  [][ (Returns /\ last'.c = "bk" /\ last'.op = "from_path") =>
        (last'.res = "Ok") = AwFromPathResult(last'.arg, last'.alloc).ok
    ]_vars

\* C5 (as stated): with no receiver at the path, the connecting from_path of
\* async_io and async_await fails with an I/O error and returns no client,
\* and the blocking from_path is constructed successfully.
C5_UnconnectedAlwaysOpens ==
  [][ (Returns /\ last'.op = "from_path" /\ ~Listening(last'.arg)) =>
        /\ last'.c \in {"aw", "io"} =>
             (last'.res = "Io" /\ NextClientOf(last'.c).st = "none")
        /\ last'.c = "bk" => (last'.res = "Ok" /\ bk'.st = "open")
    ]_vars

\* C5 (amended): with no receiver at the path, the connecting from_path of
\* async_io and async_await fails with an I/O error and returns no client;
\* the blocking from_path never touches the destination and is constructed
\* successfully unless the local socket cannot be allocated (then it fails
\* with an I/O error); a send of the blocking client made while its path has
\* no receiver asks for one write, which is refused, and returns the I/O
\* error to the caller.
C5_FailureSurfaces ==
  [][ /\ (Returns /\ last'.op = "from_path" /\ ~Listening(last'.arg)) =>
           /\ UNCHANGED <<kernelVars, tallyVars>>
           /\ last'.c \in {"aw", "io"} =>
                (last'.res = "Io" /\ NextClientOf(last'.c).st = "none")
           /\ last'.c = "bk" =>
                IF last'.alloc
                THEN last'.res = "Ok" /\ bk'.st = "open" /\ bk'.path = last'.arg
                ELSE last'.res = "Io" /\ bk'.st = "none"
      /\ (SendReturns("bk") /\ ~Listening(bk.path)) =>
           (last'.res = "Io" /\ Writes /\ ~wire'.ok /\ failed' = failed + 1)
    ]_vars

\* C5 witness: the blocking client, constructed for a path without a
\* receiver, has had its first send refused
C5_Witness ==
  /\ bk.st = "open" /\ ~Listening(bk.path)
  /\ last.c = "bk" /\ last.msg # NoMsg /\ last.res = "Io"
  /\ attempts = 1 /\ ~wire.ok /\ ncalls = 2

\* suspended or buffered messages: handed to a send primitive, not yet resolved
Pending ==
  (IF aw.pend THEN 1 ELSE 0) + (IF io.st = "open" /\ ~io.flushed THEN 1 ELSE 0)

C7_ErrorOnSameMessage ==
  [][ /\ (Returns /\ last'.res = "Ok" /\ last'.msg # NoMsg) =>
           (Writes /\ wire'.ok /\ wire'.id = last'.id)
      /\ (Writes /\ ~wire'.ok) =>
           (Returns /\ last'.res = "Io" /\ last'.id = wire'.id)
    ]_vars

\* C7 (amended): a send returns Ok only after the transport accepted its
\* datagram, and every refused write is returned as an I/O error by the very
\* call that made the write: the message's own call in the blocking and
\* async_await clients; in the Sink, the poll_complete that flushes the
\* message or, when the caller starts the next message before that, the
\* start_send of the next message, which does not take its item.
C7_ErrorNeverSwallowed ==
  [][ /\ (Returns /\ last'.res = "Ok" /\ last'.msg # NoMsg) =>
           (Writes /\ wire'.ok /\ wire'.id = last'.id /\ wire'.msg = last'.msg)
      /\ (Writes /\ ~wire'.ok) =>
           /\ Returns /\ last'.res = "Io" /\ last'.c = wire'.c
           /\ failed' = failed + 1
           /\ last'.id # wire'.id =>
                /\ last'.op = "start_send" /\ wire'.id = io.wid
                /\ last'.id > wire'.id
                /\ io'.wid = io.wid /\ sent' = sent
      /\ (Writes /\ wire'.ok) => (Returns /\ last'.res \in {"Ok", "Ready"})
    ]_vars

\* C7 witness: a start_send found the buffered earlier message refused and
\* returned that error
C7_Witness ==
  /\ last.c = "io" /\ last.op = "start_send" /\ last.res = "Io"
  /\ ~wire.ok /\ wire.c = "io" /\ wire.id < last.id /\ io.st = "failed"

\* C8: the writes of one client reach the transport in the order its sends
\* were issued: among the writes of a client, message ids only grow.
C8_SendOrder ==
  \A i, j \in 1..Len(wireIds) :
    (i < j /\ wireIds[i][1] = wireIds[j][1]) => wireIds[i][2] < wireIds[j][2]

\* C8 witness: the Sink has written two messages
C8_Witness ==
  /\ Len(wireIds) >= 2
  /\ wireIds[1][1] = "io" /\ wireIds[2][1] = "io"
  /\ delivered = 2

\* C9: every Message that exists (suspended, buffered, passed to a call or
\* written) is wire-encodable: a Status holds a text without line feed; the
\* send primitives never return InvalidData, which only set_status returns,
\* before any message exists; every datagram written or queued is one line.
C9_AlwaysEncodable ==
  /\ \A m \in {aw.pmsg, io.wmsg, last.msg, last.back, wire.msg} : ~ContainsLF(m.text)
  /\ last.res = "InvalidData" => (last.op = "set_status" /\ last.msg = NoMsg)
  /\ ~ContainsLF(wire.bytes)
  /\ ~ContainsLF(io.wr)
  /\ \A i \in 1..Len(queue) : ~ContainsLF(queue[i])

\* C9 witness: a status message passed to the public state primitive is on
\* the wire
C9_Witness ==
  /\ last.c = "aw" /\ last.op = "state" /\ last.res = "Ok"
  /\ wire.ok /\ wire.msg.tag = "Status" /\ Len(wire.msg.text) > 0

====
